---- MODULE Spec2Model ----
(***************************************************************************)
(* Whole-frame motion correction of sima/motion/frame_align.py:            *)
(*   - the growable Reference Accumulator (_update_reference,              *)
(*     _resize_array, _update_sums_and_counts, _add_with_offset);          *)
(*   - the concurrent coordinator (_frame_alignment_base, _align_frame);   *)
(*   - the pyramid search (pyramid_align, within_bounds);                  *)
(*   - the sequential VolumeTranslation strategy.                          *)
(* Arrays keep their three leading axes (plane, row, column); the channel  *)
(* axis, which the code never pads, is folded into the pixel value.        *)
(***************************************************************************)
EXTENDS Integers, Sequences, FiniteSets, TLC

\* ------------------------------------------------------------------ bounds
\* Number of _update_reference calls applied in SpecAcc.
MaxCalls == 3

\* ------------------------------------------------------- vectors and arrays
\* The number of leading axes that _resize_array may pad (pad_width[:3]).
NAxes == 3

Axes == 1..NAxes

Min2(a, b) == IF a <= b THEN a ELSE b

Max2(a, b) == IF a >= b THEN a ELSE b

VAdd(a, b) == <<a[1] + b[1], a[2] + b[2], a[3] + b[3]>>

VSub(a, b) == <<a[1] - b[1], a[2] - b[2], a[3] - b[3]>>

VNeg(a) == <<0 - a[1], 0 - a[2], 0 - a[3]>>

VMax(a, b) == <<Max2(a[1], b[1]), Max2(a[2], b[2]), Max2(a[3], b[3])>>

VMin(a, b) == <<Min2(a[1], b[1]), Min2(a[2], b[2]), Min2(a[3], b[3])>>

Zero3 == <<0, 0, 0>>

\* Index tuples (0-based, as in numpy) of an array of the given shape.
Idx(shape) == {<<i, j, k>> : i \in 0..(shape[1] - 1), j \in 0..(shape[2] - 1),
                             k \in 0..(shape[3] - 1)}

\* Whether x is an index of an array of the given shape.
InBox(x, shape) == \A i \in Axes : 0 <= x[i] /\ x[i] < shape[i]

\* np.zeros(shape)
Zeros(shape) == [shape |-> shape, data |-> [x \in Idx(shape) |-> 0]]

\* A pixel is finite with a value, or NaN.
Pix(v) == [fin |-> TRUE, val |-> v]

NaNPix == [fin |-> FALSE, val |-> 0]

\* np.nan_to_num on one pixel
NanToNum(px) == IF px.fin THEN px.val ELSE 0

\* np.isfinite on one pixel, as the number numpy adds (True == 1)
IsFinite(px) == IF px.fin THEN 1 ELSE 0

\* A padding that appends all new cells after the data (the low-side pad does
\* not move the data): a faulty variant that C5 tells apart.
PadAtEndOnly(array, lo, hi) ==
  LET nshape == VAdd(array.shape, VAdd(lo, hi))
  IN [shape |-> nshape,
      data |-> [x \in Idx(nshape) |->
                  IF InBox(x, array.shape) THEN array.data[x] ELSE 0]]

\* np.pad(array, pad_width, 'constant'): lo[i] zeros before and hi[i] zeros
\* after the data on axis i.
Pad(array, lo, hi) ==
  LET nshape == VAdd(array.shape, VAdd(lo, hi))
  IN [shape |-> nshape,
      data |-> [x \in Idx(nshape) |->
                  IF InBox(VSub(x, lo), array.shape)
                  THEN array.data[VSub(x, lo)] ELSE 0]]

\* _resize_array: pad low by -min(0, displacement) and high by
\* max(0, displacement + frame_shape - array.shape), only if some pad is nonzero.
ResizeArray(array, displacement, frame_shape) ==
  LET lo == VNeg(VMin(Zero3, displacement))
      hi == VMax(Zero3, VSub(VAdd(displacement, frame_shape), array.shape))
  IN IF \E i \in Axes : lo[i] # 0 \/ hi[i] # 0
     THEN Pad(array, lo, hi) ELSE array

\* Python's slice(o, o + e).indices(n): a negative bound counts from the end,
\* both bounds are clipped to 0..n.
SliceNorm(x, n) == IF x < 0 THEN Max2(x + n, 0) ELSE Min2(x, n)

SliceStart(o, e, n) == SliceNorm(o, n)

SliceLen(o, e, n) == Max2(SliceNorm(o + e, n) - SliceNorm(o, n), 0)

\* array1[slices] += array2 succeeds when, on every axis, the slice has the
\* extent of array2 or array2 has extent 1 there (numpy broadcasting).
AddFits(shape1, shape2, offset) ==
  \A i \in Axes : \/ SliceLen(offset[i], shape2[i], shape1[i]) = shape2[i]
                  \/ shape2[i] = 1

\* _add_with_offset on the data: the cells of the slice get the matching
\* (or broadcast) cell of array2 added. vals maps an index of array2 to a number.
AddWithOffset(array1, shape2, vals, offset) ==
  LET st == <<SliceStart(offset[1], shape2[1], array1.shape[1]),
               SliceStart(offset[2], shape2[2], array1.shape[2]),
               SliceStart(offset[3], shape2[3], array1.shape[3])>>
      ln == <<SliceLen(offset[1], shape2[1], array1.shape[1]),
               SliceLen(offset[2], shape2[2], array1.shape[2]),
               SliceLen(offset[3], shape2[3], array1.shape[3])>>
      InSlice(x) == \A i \in Axes : st[i] <= x[i] /\ x[i] < st[i] + ln[i]
      Src(x) == <<IF ln[1] = shape2[1] THEN x[1] - st[1] ELSE 0,
                  IF ln[2] = shape2[2] THEN x[2] - st[2] ELSE 0,
                  IF ln[3] = shape2[3] THEN x[3] - st[3] ELSE 0>>
  IN [array1 EXCEPT !.data =
        [x \in Idx(array1.shape) |->
           IF InSlice(x) THEN array1.data[x] + vals[Src(x)]
           ELSE array1.data[x]]]

\* The sums updated and the counts left as they were.
UpdateSumsOnly(pixel_sums, pixel_counts, offset, shift, image) ==
  LET disp == VAdd(offset, shift)
  IN [ok |-> AddFits(pixel_sums.shape, image.shape, disp),
      at |-> disp,
      sums |-> AddWithOffset(pixel_sums, image.shape,
                  [x \in Idx(image.shape) |-> NanToNum(image.data[x])], disp),
      counts |-> pixel_counts]

\* _update_sums_and_counts: disp = offset + shift; sums += nan_to_num(image),
\* counts += isfinite(image) at disp. ok is FALSE when numpy raises.
UpdateSumsAndCounts(pixel_sums, pixel_counts, offset, shift, image) ==
  LET disp == VAdd(offset, shift)
  IN [ok |-> AddFits(pixel_sums.shape, image.shape, disp)
             /\ AddFits(pixel_counts.shape, image.shape, disp),
      at |-> disp,
      sums |-> AddWithOffset(pixel_sums, image.shape,
                  [x \in Idx(image.shape) |-> NanToNum(image.data[x])], disp),
      counts |-> AddWithOffset(pixel_counts, image.shape,
                  [x \in Idx(image.shape) |-> IsFinite(image.data[x])], disp)]

\* An offset that is never grown: a faulty variant that C6 tells apart.
StaleOffset(offset, displacement) == offset

\* The new offset of _update_reference: np.maximum(offset, -displacement).
NewOffset(offset, displacement) == VMax(offset, VNeg(displacement))

\* _update_reference: resize both arrays for displacement + (old) offset, grow
\* the offset, then accumulate at (new offset + displacement).
UpdateReference(sums, counts, offset, displacement, image) ==
  LET rs == ResizeArray(sums, VAdd(displacement, offset), image.shape)
      rc == ResizeArray(counts, VAdd(displacement, offset), image.shape)
      noff == NewOffset(offset, displacement)
      u == UpdateSumsAndCounts(rs, rc, noff, displacement, image)
  IN [ok |-> u.ok, at |-> u.at, sums |-> u.sums, counts |-> u.counts,
      offset |-> noff]

\* ------------------------------------------------------------ the dataset
\* Frames per cycle of the datasets of Spec.
MaxFrames == 2

\* Dataset shapes (cycles and planes) the runs of Spec are drawn from.
DatasetShapes == {[cycles |-> 2, planes |-> 1], [cycles |-> 1, planes |-> 2]}

\* Rows and columns of one plane; both are below 2 * min_shape, so that
\* pyramid_align goes straight to base_alignment on these frames.
NRows == 2

NCols == 1

\* (n_processes, cpu_count) pairs; <<>> is None, <<n>> is the integer n.
PoolConfigs == {<<<<>>, 1>>, <<<<>>, 6>>, <<<<0>>, 6>>}

\* (method, max_displacement) pairs: the supported method without and with a
\* maximum displacement in [y, x] (<<>> is None), the declared method, an
\* unrecognized one.
RunConfigs == {<<"correlation", <<>>>>, <<"correlation", <<1, 1>>>>,
               <<"correlation", <<0, 2>>>>, <<"ECC", <<>>>>, <<"bogus", <<>>>>}

\* Displacements (relative to the reference origin) that the external
\* cross-correlation may report when no bounds are given. The plane axis of
\* the images has extent 1, so its component is 0.
SearchDisps == {<<0, -1, 1>>, <<0, 1, -1>>}

\* All-NaN (frame, plane) slots of the dataset: none, or the first one.
NanChoices == {{}, {<<0, 0, 0>>}}

\* Values that np.empty may leave in a cell nobody writes.
Garbage == {0, 1}

VARIABLES
  dataset,          \* [cycles, frames, planes, nan]: the input sequences
  method,           \* the method parameter
  max_displacement, \* the max_displacement parameter (<<>> is None)
  n_processes,      \* the n_processes parameter (<<>> is None)
  cpu_count,        \* multiprocessing.cpu_count()
  n_pools,          \* worker-pool size
  pixel_sums,       \* namespace.pixel_sums
  pixel_counts,     \* namespace.pixel_counts
  offset,           \* namespace.offset
  shifts,           \* namespace.shifts, by (cycle, frame, plane)
  correlations,     \* namespace.correlations, by (cycle, frame, plane)
  lock,             \* 0 when free, else the worker holding it
  main,             \* the main process: [pc, cycle_idx, queue, result]
  workers,          \* by worker: program counter and locals of _align_frame
  log,              \* history, by slot: what has been done for it
  acc,              \* SpecAcc: the history of _update_reference calls
  pyr,              \* SpecPyr: the call stack of pyramid_align
  drift,            \* SpecPlanes: the shift arrays given to _align_planes
  corr,             \* SpecCorr: the arrays given to shifted_corr
  debug             \* __debug__: FALSE under python -O, which removes asserts

vars == <<dataset, method, max_displacement, n_processes, cpu_count, n_pools,
          pixel_sums, pixel_counts, offset, shifts, correlations, lock, main,
          workers, log, acc, pyr, drift, corr, debug>>

cfgVars == <<dataset, method, max_displacement, n_processes, cpu_count,
            debug>>

namespaceVars == <<pixel_sums, pixel_counts, offset, shifts, correlations>>

otherSpecVars == <<acc, pyr, drift, corr>>

\* ---------------------------------------------------------------- helpers
Cycles == 0..(dataset.cycles - 1)

Frames == 0..(dataset.frames - 1)

Planes == 0..(dataset.planes - 1)

Slots == {<<c, f, p>> : c \in Cycles, f \in Frames, p \in Planes}

\* dataset.frame_shape without the channel axis
FrameShape == <<dataset.planes, NRows, NCols>>

\* np.expand_dims(plane, 0) of frame f of cycle c: shape (1, rows, cols)
PlaneShape == <<1, NRows, NCols>>

PlaneImage(c, f, p) ==
  [shape |-> PlaneShape,
   data |-> [x \in Idx(PlaneShape) |->
               IF <<c, f, p>> \in dataset.nan THEN NaNPix ELSE Pix(1 + f)]]

\* Python 2 integer division of non-negative integers
PyDiv(a, b) == a \div b

\* The largest chunk handed to one pool worker.
ChunkCap == 200

\* chunksize = min(1 + len(cycle) / n_pools, 200)
ChunkSize == Min2(1 + PyDiv(dataset.frames, n_pools), ChunkCap)

\* The frame indices of one cycle cut into chunks: with n_pools > 1,
\* imap_unordered hands out consecutive runs of chunksize frames, each run
\* processed in order by one worker; with n_pools = 1, it.imap processes all
\* frames in order in the calling process.
RECURSIVE ChunksFrom(_, _)
ChunksFrom(first, size) ==
  IF first >= dataset.frames THEN <<>>
  ELSE <<[i \in 1..Min2(size, dataset.frames - first) |-> first + i - 1]>>
         \o ChunksFrom(first + size, size)

CycleChunks ==
  IF n_pools > 1 THEN ChunksFrom(0, ChunkSize)
  ELSE ChunksFrom(0, dataset.frames)

\* n_pools as _frame_alignment_base derives it from n_processes
NPools(nproc, cpus) ==
  IF nproc = <<>> THEN PyDiv(cpus, 2)
  ELSE IF nproc[1] = 0 THEN 1 ELSE nproc[1]

\* The locals of a worker that is not inside _align_frame. Of its snapshot
\* of namespace.shifts a worker uses only np.min and np.max over all slots,
\* so these two vectors are what it keeps.
IdleWorker ==
  [pc |-> "idle", chunk |-> <<>>, cycle_idx |-> 0, frame_idx |-> 0, p |-> 0,
   any_check |-> FALSE, p_offset |-> Zero3, min_shift |-> Zero3,
   max_shift |-> Zero3, shift |-> Zero3]

\* What has been done for a slot so far: writes of its Shift Record and of
\* its Correlation Record, whether it went through the seed branch, whether
\* pyramid_align was called for it, its accumulator updates with the index of
\* the last one, whether the offset had moved since the worker's snapshot when
\* it made that update, and the worker that wrote it.
NoLog == [shift_writes |-> 0, corr_writes |-> 0, seeded |-> FALSE,
          searched |-> FALSE, updates |-> 0, at |-> Zero3, stale |-> FALSE,
          by |-> 0]

\* ------------------------------------------- SpecAcc: the accumulator alone
\* Frame shapes (planes, rows, columns) of the accumulator runs.
AccFrameShapes == {<<2, 2, 1>>}

\* Displacements handed to _update_reference: none, low-side and high-side
\* growth on one or several axes, by one or two cells.
AccDisps == {<<0, 0, 0>>, <<0, -1, 0>>, <<1, 1, -1>>, <<-1, 0, 2>>,
             <<0, -2, 1>>}

\* Images of a shape: one with distinct finite pixels, one with a NaN pixel.
AccImages(shape) ==
  {[shape |-> shape,
    data |-> [x \in Idx(shape) |-> Pix(1 + x[1] + 2 * x[2] + 4 * x[3])]],
   [shape |-> shape,
    data |-> [x \in Idx(shape) |-> IF x = <<0, 0, 0>> THEN NaNPix ELSE Pix(7)]]}

\* Values of the variables a specification does not use.
NoDataset == [cycles |-> 0, frames |-> 0, planes |-> 0, nan |-> {}]

NoMain == [pc |-> "unused", cycle_idx |-> 0, queue |-> <<>>, failed |-> FALSE,
           error |-> "", result |-> <<>>]

NoAcc == [hist |-> <<>>, ok |-> TRUE, at |-> Zero3, imshape |-> Zero3]

NoPyr == <<>>

NoDrift == <<>>

NoCorr == <<>>

CoordinatorUnused ==
  /\ dataset = NoDataset
  /\ method = "correlation"
  /\ max_displacement = <<>>
  /\ n_processes = <<>>
  /\ cpu_count = 0
  /\ n_pools = 0
  /\ shifts = <<>>
  /\ correlations = <<>>
  /\ lock = 0
  /\ main = NoMain
  /\ workers = <<>>
  /\ log = <<>>
  /\ debug = TRUE

coordinatorOnlyVars == <<dataset, method, max_displacement, n_processes,
                         cpu_count, n_pools, shifts, correlations, lock, main,
                         workers, log, debug>>

\* The state before the first call: zero arrays of the frame shape and a zero
\* offset, as _frame_alignment_base and VolumeTranslation._estimate create them.
\* Images are whole frames (VolumeTranslation) or single planes (_align_frame).
InitAcc ==
  /\ CoordinatorUnused
  /\ pyr = NoPyr
  /\ drift = NoDrift
  /\ corr = NoCorr
  /\ \E fs \in AccFrameShapes : \E ims \in {fs, <<1, fs[2], fs[3]>>} :
       /\ pixel_sums = Zeros(fs)
       /\ pixel_counts = Zeros(fs)
       /\ acc = [hist |-> <<>>, ok |-> TRUE, at |-> Zero3, imshape |-> ims]
  /\ offset = Zero3

\* sums, counts, offset = _update_reference(sums, counts, offset, d, image)
CallUpdateReference(d, image) ==
  /\ acc.ok
  /\ Len(acc.hist) < MaxCalls
  /\ LET r == UpdateReference(pixel_sums, pixel_counts, offset, d, image)
     IN /\ acc' = [acc EXCEPT !.hist = Append(@, [d |-> d, image |-> image]),
                              !.ok = r.ok, !.at = r.at]
        /\ IF r.ok
           THEN /\ pixel_sums' = r.sums
                /\ pixel_counts' = r.counts
                /\ offset' = r.offset
           ELSE UNCHANGED <<pixel_sums, pixel_counts, offset>>
  /\ UNCHANGED <<coordinatorOnlyVars, pyr, drift, corr>>

NextAcc == \E d \in AccDisps : \E image \in AccImages(acc.imshape) :
             CallUpdateReference(d, image)

SpecAcc == InitAcc /\ [][NextAcc]_vars

\* What the first n calls of the history put at index x of sums, if the image
\* of call i lies at index (offset + d_i) of the arrays as they are now.
RECURSIVE ExpectedSum(_, _)
ExpectedSum(n, x) ==
  IF n = 0 THEN 0
  ELSE LET h == acc.hist[n]
           y == VSub(x, VAdd(offset, h.d))
       IN (IF InBox(y, h.image.shape) THEN NanToNum(h.image.data[y]) ELSE 0)
          + ExpectedSum(n - 1, x)

\* The same for counts.
RECURSIVE ExpectedCount(_, _)
ExpectedCount(n, x) ==
  IF n = 0 THEN 0
  ELSE LET h == acc.hist[n]
           y == VSub(x, VAdd(offset, h.d))
       IN (IF InBox(y, h.image.shape) THEN IsFinite(h.image.data[y]) ELSE 0)
          + ExpectedCount(n - 1, x)

\* The componentwise maximum of the initial offset (zero) and the negated
\* displacements of the first n calls.
RECURSIVE MaxNegated(_)
MaxNegated(n) ==
  IF n = 0 THEN Zero3 ELSE VMax(MaxNegated(n - 1), VNeg(acc.hist[n].d))

\* C5: after any sequence of _update_reference calls, sums and counts have the
\* same shape, no call raised, every cell of every earlier image lies inside
\* the arrays at index (current offset + its displacement), and sums and counts
\* are exactly the sum of all contributions placed there: nothing is lost or
\* moved by a later low-side or high-side padding.
C5_ContributionsPreserved ==
  /\ acc.ok
  /\ pixel_sums.shape = pixel_counts.shape
  /\ \A n \in 1..Len(acc.hist) : \A y \in Idx(acc.hist[n].image.shape) :
       InBox(VAdd(y, VAdd(offset, acc.hist[n].d)), pixel_sums.shape)
  /\ \A x \in Idx(pixel_sums.shape) :
       /\ pixel_sums.data[x] = ExpectedSum(Len(acc.hist), x)
       /\ pixel_counts.data[x] = ExpectedCount(Len(acc.hist), x)

\* Witness of C5: an image was added, then a later call padded the low side of
\* the row axis and the high side of the column axis.
C5_Witness ==
  /\ Len(acc.hist) >= 2
  /\ acc.hist[1].d = <<1, 1, -1>>
  /\ acc.hist[2].d = <<0, -2, 1>>
  /\ acc.ok

\* The state part of C6: the offset is the maximum of zero and the negated
\* displacements so far, and the last call inserted its image at
\* (new offset + displacement), a non-negative index with index + extent inside
\* the resized arrays on every axis.
OffsetAndInsertionOk ==
  /\ acc.ok
  /\ offset = MaxNegated(Len(acc.hist))
  /\ Len(acc.hist) > 0 =>
       LET h == acc.hist[Len(acc.hist)]
       IN /\ acc.at = VAdd(offset, h.d)
          /\ \A i \in Axes :
               /\ acc.at[i] >= 0
               /\ acc.at[i] + h.image.shape[i] <= pixel_sums.shape[i]
               /\ acc.at[i] + h.image.shape[i] <= pixel_counts.shape[i]

\* C6: the offset never decreases on any axis, equals the componentwise
\* maximum of its initial value and the negated displacements seen so far, and
\* every call's insertion index is non-negative and fits the resized arrays.
C6_OffsetGrowsInsertionFits ==
  /\ []OffsetAndInsertionOk
  /\ [][\A i \in Axes : offset'[i] >= offset[i]]_vars

\* Witness of C6: the offset has grown on two axes by different calls.
C6_Witness ==
  /\ Len(acc.hist) >= 2
  /\ offset[1] > 0
  /\ offset[2] > 1
  /\ acc.ok

\* ------------------------------------------- Spec: the concurrent coordinator
\* Worker identities: the pool's processes, or the calling process itself
\* (worker 1) when n_pools = 1 and it.imap replaces the pool.
Workers == 1..n_pools

SlotOf(w) == <<workers[w].cycle_idx, workers[w].frame_idx, workers[w].p>>

\* The state after lines 95-114 of _frame_alignment_base: n_pools derived,
\* the namespace filled with a zero offset, zero sums and counts of the frame
\* shape, zero shifts and uninitialized (np.empty) correlations, the lock
\* free, the pool created. Pool(processes=n) raises ValueError for n < 1.
Setup(nans, runs, pools) ==
  /\ \E sh \in DatasetShapes : \E nan \in nans :
       dataset = [cycles |-> sh.cycles, frames |-> MaxFrames,
                  planes |-> sh.planes, nan |-> nan]
  /\ \E rc \in runs : method = rc[1] /\ max_displacement = rc[2]
  /\ \E pc \in pools : n_processes = pc[1] /\ cpu_count = pc[2]
  /\ n_pools = NPools(n_processes, cpu_count)
  /\ offset = Zero3
  /\ pixel_counts = Zeros(FrameShape)
  /\ pixel_sums = Zeros(FrameShape)
  /\ shifts = [s \in Slots |-> Zero3]
  /\ correlations = [s \in Slots |-> [set |-> FALSE, val |-> 0]]
  /\ lock = 0
  /\ main = [pc |-> IF n_pools < 1 THEN "raised" ELSE "dispatch",
             cycle_idx |-> 0, queue |-> <<>>, failed |-> FALSE,
             error |-> IF n_pools < 1 THEN "ValueError" ELSE "",
             result |-> <<>>]
  /\ workers = [w \in Workers |-> IdleWorker]
  /\ log = [s \in Slots |-> NoLog]
  /\ acc = NoAcc
  /\ pyr = NoPyr
  /\ drift = NoDrift
  /\ corr = NoCorr

\* A run of the interpreter as it starts by default: assert statements are
\* executed.
Init == debug = TRUE /\ Setup(NanChoices, RunConfigs, PoolConfigs)

\* Lines 116-128: the tasks of cycle cycle_idx are handed to the pool (or to
\* it.imap), cut into chunks.
Dispatch ==
  /\ main.pc = "dispatch"
  /\ main.cycle_idx < dataset.cycles
  /\ main' = [main EXCEPT !.pc = "drain", !.queue = CycleChunks]
  /\ UNCHANGED <<cfgVars, n_pools, namespaceVars, lock, workers, log,
                 otherSpecVars>>

\* A free worker takes the next chunk and enters _align_frame for its first
\* frame (line 183), at the first plane. With maxtasksperchild=1 every chunk
\* runs in a fresh process, so the free places of the pool are alike and the
\* chunk goes to the first of them. The pool keeps serving queued chunks
\* until it is torn down, also after another chunk has raised.
TakeChunk(w) ==
  /\ workers[w].pc = "idle"
  /\ \A v \in Workers : v < w => workers[v].pc # "idle"
  /\ main.queue # <<>>
  /\ workers' = [workers EXCEPT ![w] =
       [IdleWorker EXCEPT !.pc = "lock1", !.chunk = Head(main.queue),
                          !.cycle_idx = main.cycle_idx,
                          !.frame_idx = Head(main.queue)[1]]]
  /\ main' = [main EXCEPT !.queue = Tail(@)]
  /\ UNCHANGED <<cfgVars, n_pools, namespaceVars, lock, log, otherSpecVars>>

\* Entering a `with lock:` block whose body steals the lock from its holder:
\* a faulty variant that C1 tells apart.
AcquireWithoutWaiting(w) ==
  /\ workers[w].pc \in {"lock1", "lock2", "lock3", "lock4"}
  /\ lock' = w
  /\ workers' = [workers EXCEPT ![w].pc =
       CASE @ = "lock1" -> "check" [] @ = "lock2" -> "snapshot"
         [] @ = "lock3" -> "commit" [] OTHER -> "update"]
  /\ UNCHANGED <<cfgVars, n_pools, namespaceVars, main, log, otherSpecVars>>

\* `with lock:` at lines 195, 210, 242 and 247: wait until the lock is free,
\* take it, enter the block.
Acquire(w) ==
  /\ workers[w].pc \in {"lock1", "lock2", "lock3", "lock4"}
  /\ lock = 0
  /\ lock' = w
  /\ workers' = [workers EXCEPT ![w].pc =
       CASE @ = "lock1" -> "check" [] @ = "lock2" -> "snapshot"
         [] @ = "lock3" -> "commit" [] OTHER -> "update"]
  /\ UNCHANGED <<cfgVars, n_pools, namespaceVars, main, log, otherSpecVars>>

\* The locals of worker wk after it finished plane wk.p: the next plane of the
\* frame (line 191), else the next frame of its chunk, else idle again.
Advance(wk) ==
  IF wk.p + 1 < dataset.planes
  THEN [wk EXCEPT !.pc = "lock1", !.p = wk.p + 1, !.any_check = FALSE,
                  !.p_offset = Zero3, !.min_shift = Zero3,
                  !.max_shift = Zero3, !.shift = Zero3]
  ELSE IF Len(wk.chunk) > 1
  THEN [IdleWorker EXCEPT !.pc = "lock1", !.chunk = Tail(wk.chunk),
                          !.cycle_idx = wk.cycle_idx,
                          !.frame_idx = wk.chunk[2]]
  ELSE IdleWorker

\* np.any over the whole counts array instead of plane p: a faulty variant
\* that C4 tells apart.
AnyCountAnywhere(counts, p) ==
  \E x \in Idx(counts.shape) : counts.data[x] # 0

\* np.any(namespace.pixel_counts[p]) (line 196)
AnyCheck(counts, p) ==
  \E x \in Idx(counts.shape) : x[1] = p /\ counts.data[x] # 0

\* Writing a whole frame's row of slots instead of one slot: what C3 must
\* detect.
WriteFrameShifts(s, slot, value) ==
  [x \in DOMAIN s |-> IF x[1] = slot[1] /\ x[2] = slot[2] THEN value ELSE s[x]]

\* s[cycle_idx][frame_idx][p][:] = value (lines 202 and 244)
WriteShift(s, slot, value) == [s EXCEPT ![slot] = value]

\* An exception leaves _align_frame: the `with` block (if any) releases the
\* lock, the chunk is over and reported as failed, the pool replaces the
\* worker process.
Raise(w, err) ==
  /\ workers' = [workers EXCEPT ![w] = IdleWorker]
  /\ main' = [main EXCEPT !.failed = TRUE,
                          !.error = IF main.failed THEN @ ELSE err]
  /\ lock' = IF lock = w THEN 0 ELSE lock

\* Lines 196-207, inside the first `with lock:` block: the seed check and,
\* when the counts of plane p are all zero, the seed branch: correlation 1,
\* shift 0 and the plane added to the accumulator at displacement [p, 0, 0].
\* Leaving the block releases the lock.
Check(w) ==
  /\ workers[w].pc = "check"
  /\ LET wk == workers[w]
         slot == SlotOf(w)
         any_check == AnyCheck(pixel_counts, wk.p)
         r == UpdateReference(pixel_sums, pixel_counts, offset,
                              <<wk.p, 0, 0>>,
                              PlaneImage(slot[1], slot[2], slot[3]))
     IN IF any_check
        THEN /\ workers' = [workers EXCEPT ![w].pc = "lock2",
                                           ![w].any_check = TRUE]
             /\ lock' = 0
             /\ UNCHANGED <<namespaceVars, main, log>>
        ELSE /\ correlations' = [correlations EXCEPT ![slot] =
                                   [set |-> TRUE, val |-> 1]]
             /\ shifts' = WriteShift(shifts, slot, Zero3)
             /\ log' = [log EXCEPT ![slot].corr_writes = @ + 1,
                                   ![slot].shift_writes = @ + 1,
                                   ![slot].seeded = TRUE,
                                   ![slot].by = w,
                                   ![slot].updates = IF r.ok THEN @ + 1 ELSE @,
                                   ![slot].at = r.at]
             /\ IF r.ok
                THEN /\ pixel_sums' = r.sums
                     /\ pixel_counts' = r.counts
                     /\ offset' = r.offset
                     /\ workers' = [workers EXCEPT ![w] = Advance(wk)]
                     /\ lock' = 0
                     /\ UNCHANGED main
                ELSE /\ UNCHANGED <<pixel_sums, pixel_counts, offset>>
                     /\ Raise(w, "ValueError")
  /\ UNCHANGED <<cfgVars, n_pools, otherSpecVars>>

\* np.min / np.max over all slots of a shifts array, per axis (lines 221-224)
MinShift(s) ==
  [i \in Axes |-> CHOOSE m \in {s[x][i] : x \in DOMAIN s} :
                    \A x \in DOMAIN s : m <= s[x][i]]

MaxShift(s) ==
  [i \in Axes |-> CHOOSE m \in {s[x][i] : x \in DOMAIN s} :
                    \A x \in DOMAIN s : m >= s[x][i]]

\* Lines 210-214, the second `with lock:` block: the snapshot of the offset
\* and of the shifts (the sums and counts of the plane go to the external
\* cross-correlation only).
Snapshot(w) ==
  /\ workers[w].pc = "snapshot"
  /\ workers' = [workers EXCEPT ![w].pc = "search",
                                ![w].p_offset = offset,
                                ![w].min_shift = MinShift(shifts),
                                ![w].max_shift = MaxShift(shifts)]
  /\ lock' = 0
  /\ UNCHANGED <<cfgVars, n_pools, namespaceVars, main, log, otherSpecVars>>

\* max_displacement = [0] + list(max_displacement) (line 185)
PlaneCapped == <<0>> \o max_displacement

\* Line 219-220: bounds are derived when a maximum displacement is configured
\* and none of its components is negative.
BoundsConfigured ==
  /\ max_displacement # <<>>
  /\ \A i \in Axes : PlaneCapped[i] >= 0

\* A faulty variant that C14 tells apart: the history widened by twice the
\* maximum displacement.
DisplacementBoundsTwice(wk) ==
  IF BoundsConfigured
  THEN <<VAdd(wk.p_offset, VSub(VMin(VSub(wk.max_shift, PlaneCapped),
                                     wk.min_shift), PlaneCapped)),
         VAdd(wk.p_offset, VAdd(VMax(VAdd(wk.min_shift, PlaneCapped),
                                     wk.max_shift), PlaneCapped))>>
  ELSE <<>>

\* Lines 225-227: p_offset + [min(max_shift - M, min_shift),
\*                            max(min_shift + M, max_shift)]; <<>> is None.
DisplacementBounds(wk) ==
  IF BoundsConfigured
  THEN <<VAdd(wk.p_offset, VMin(VSub(wk.max_shift, PlaneCapped), wk.min_shift)),
         VAdd(wk.p_offset, VMax(VAdd(wk.min_shift, PlaneCapped), wk.max_shift))>>
  ELSE <<>>

\* The entry assertion of pyramid_align (line 440):
\* bounds is None or np.all(bounds[0] < bounds[1]).
BoundsStrict(bounds) ==
  IF bounds = <<>> THEN TRUE
  ELSE \A i \in Axes : bounds[1][i] < bounds[2][i]

\* within_bounds (lines 421-426)
WithinBounds(displacement, bounds) ==
  IF bounds = <<>> THEN TRUE
  ELSE /\ \A i \in Axes : bounds[1][i] <= displacement[i]
       /\ \A i \in Axes : bounds[2][i] >= displacement[i]

\* The integer vectors between two corners.
Box(lo, hi) == {<<a, b, c>> : a \in lo[1]..hi[1], b \in lo[2]..hi[2],
                              c \in lo[3]..hi[3]}

\* base_alignment (lines 417-418), the external cross-correlation: any
\* displacement within the bounds it is given; without bounds, one of
\* SearchDisps away from the origin of the reference.
BaseAlignment(origin, bounds) ==
  IF bounds = <<>> THEN {VAdd(origin, d) : d \in SearchDisps}
  ELSE {d \in Box(bounds[1], bounds[2]) : WithinBounds(d, bounds)}

\* The assertions after the search (lines 233-236).
PostSearchOk(wk, bounds, shift) ==
  \/ bounds = <<>>
  \/ /\ \A i \in Axes : shift[i] >= bounds[1][i]
     /\ \A i \in Axes : shift[i] <= bounds[2][i]
     /\ \A i \in Axes : shift[i] - wk.p_offset[i] <= PlaneCapped[i]
     /\ \A i \in Axes : wk.p_offset[i] - shift[i] <= PlaneCapped[i]

\* Lines 215-241, outside any lock, for a worker with the locals wk: what the
\* search step can end in. The frames of Spec have no axis of 2 * min_shape or
\* more, so pyramid_align is its entry assertion followed by base_alignment.
\* The assert statements are executed only when debug holds.
SearchOutcomes(wk) ==
  IF method = "correlation"
  THEN LET b == DisplacementBounds(wk)
       IN IF debug /\ ~BoundsStrict(b)
          THEN {[err |-> "AssertionError", shift |-> Zero3]}
          ELSE {[err |-> IF ~debug \/ PostSearchOk(wk, b, d) THEN ""
                         ELSE "AssertionError", shift |-> d] :
                  d \in BaseAlignment(wk.p_offset, b)}
  ELSE IF method = "ECC"
  THEN {[err |-> "NotImplementedError", shift |-> Zero3]}
  ELSE {[err |-> "ValueError", shift |-> Zero3]}

Search(w) ==
  /\ workers[w].pc = "search"
  /\ \E out \in SearchOutcomes(workers[w]) :
       /\ log' = [log EXCEPT ![SlotOf(w)].searched =
                    @ \/ method = "correlation"]
       /\ IF out.err = ""
          THEN /\ workers' = [workers EXCEPT ![w].pc = "lock3",
                                             ![w].shift = out.shift]
               /\ UNCHANGED <<main, lock>>
          ELSE Raise(w, out.err)
  /\ UNCHANGED <<cfgVars, n_pools, namespaceVars, otherSpecVars>>

\* Lines 242-245, the third `with lock:` block: the shift, relative to the
\* snapshot offset, is committed to the worker's slot.
Commit(w) ==
  /\ workers[w].pc = "commit"
  /\ shifts' = WriteShift(shifts, SlotOf(w),
                          VSub(workers[w].shift, workers[w].p_offset))
  /\ log' = [log EXCEPT ![SlotOf(w)].shift_writes = @ + 1,
                        ![SlotOf(w)].by = w]
  /\ workers' = [workers EXCEPT ![w].pc = "lock4"]
  /\ lock' = 0
  /\ UNCHANGED <<cfgVars, n_pools, pixel_sums, pixel_counts, offset,
                 correlations, main, otherSpecVars>>

\* The displacement taken from the worker's own search result instead of the
\* committed Shift Record.
DisplacementFromSearch(wk, shift) == <<wk.p, wk.shift[2], wk.shift[3]>>

\* [p] + list(shift)[1:] (line 252), shift being the slot's Shift Record.
UpdateDisplacement(wk, shift) == <<wk.p, shift[2], shift[3]>>

\* Lines 247-253, the fourth `with lock:` block: the slot's shift is read
\* back and the plane is added to the accumulator at [p] + shift[1:].
Update(w) ==
  /\ workers[w].pc = "update"
  /\ LET wk == workers[w]
         slot == SlotOf(w)
         shift == shifts[slot]
         r == UpdateReference(pixel_sums, pixel_counts, offset,
                              UpdateDisplacement(wk, shift),
                              PlaneImage(slot[1], slot[2], slot[3]))
     IN IF r.ok
        THEN /\ pixel_sums' = r.sums
             /\ pixel_counts' = r.counts
             /\ offset' = r.offset
             /\ log' = [log EXCEPT ![slot].updates = @ + 1, ![slot].at = r.at,
                                   ![slot].stale = wk.p_offset # offset]
             /\ workers' = [workers EXCEPT ![w] = Advance(wk)]
             /\ lock' = 0
             /\ UNCHANGED main
        ELSE /\ UNCHANGED <<pixel_sums, pixel_counts, offset, log>>
             /\ Raise(w, "ValueError")
  /\ UNCHANGED <<cfgVars, n_pools, shifts, correlations, otherSpecVars>>

\* The next cycle may go out although workers are still busy: a faulty
\* variant that C2 tells apart.
QueueHandedOut == main.queue = <<>>

\* Lines 131-135: the loop over map_generator ends (StopIteration) when every
\* chunk of the cycle has been handed out and has returned.
CycleDrained ==
  /\ main.queue = <<>>
  /\ \A w \in Workers : workers[w].pc = "idle"

\* The for loop of line 116 moves on to the next cycle.
NextCycle ==
  /\ main.pc = "drain"
  /\ ~main.failed
  /\ CycleDrained
  /\ main' = [main EXCEPT !.pc = "dispatch", !.cycle_idx = @ + 1]
  /\ UNCHANGED <<cfgVars, n_pools, namespaceVars, lock, workers, log,
                 otherSpecVars>>

\* next(map_generator) re-raises the exception of a failed chunk (line 133):
\* _frame_alignment_base ends without a result.
MainRaise ==
  /\ main.pc = "drain"
  /\ main.failed
  /\ main' = [main EXCEPT !.pc = "raised"]
  /\ UNCHANGED <<cfgVars, n_pools, namespaceVars, lock, workers, log,
                 otherSpecVars>>

\* --------------------------------------------------- float64 arithmetic
\* nanmean returns float64 numbers and the alteration of _align_planes is
\* their difference converted with astype(int) (lines 143-145). Such a number
\* is kept as a sign and a magnitude in binary fixed point: IntBits bits
\* before the point and FracBits after it, most significant bit first, which
\* holds every float64 between 2^-7 and 2^8 exactly. An operation computes its
\* exact result and rounds it to MantissaBits significant bits, ties to even.
MantissaBits == 53

IntBits == 8

FracBits == 60

FixedWidth == IntBits + FracBits

FixedZero == [i \in 1..FixedWidth |-> 0]

\* The binary digits of the integer n < 2^k, on k bits.
RECURSIVE IntBitsOf(_, _)
IntBitsOf(n, k) ==
  IF k = 0 THEN <<>> ELSE Append(IntBitsOf(n \div 2, k - 1), n % 2)

\* 2^k modulo den
RECURSIVE PowMod(_, _)
PowMod(k, den) == IF k = 0 THEN 1 % den ELSE (2 * PowMod(k - 1, den)) % den

\* The remainder of the long division of r by den (r < den) after k binary
\* digits.
FracRem(r, den, k) == (r * PowMod(k, den)) % den

\* The first k binary digits of r / den after the point.
FracDigits(r, den, k) ==
  SubSeq([i \in 1..k |-> IF 2 * FracRem(r, den, i - 1) >= den THEN 1 ELSE 0],
         1, k)

\* a + b on magnitudes: bit i takes a carry if, below it, a position where
\* both have a 1 is reached through positions where exactly one has.
AddBits(a, b) ==
  SubSeq([i \in 1..FixedWidth |->
            LET carry == \E j \in (i + 1)..FixedWidth :
                           /\ a[j] + b[j] = 2
                           /\ \A k \in (i + 1)..(j - 1) : a[k] + b[k] = 1
            IN (a[i] + b[i] + (IF carry THEN 1 ELSE 0)) % 2],
         1, FixedWidth)

\* a - b on magnitudes (a >= b): bit i lends if, below it, the first
\* position where the two differ has the 1 in b.
SubBits(a, b) ==
  SubSeq([i \in 1..FixedWidth |->
            LET borrow == \E j \in (i + 1)..FixedWidth :
                            /\ a[j] < b[j]
                            /\ \A k \in (i + 1)..(j - 1) : a[k] = b[k]
            IN (a[i] - b[i] - (IF borrow THEN 1 ELSE 0) + 2) % 2],
         1, FixedWidth)

\* The first position from which on a and b differ, 0 if they are equal.
FirstDiff(a, b) ==
  LET D == {i \in 1..FixedWidth : a[i] # b[i]}
  IN IF D = {} THEN 0 ELSE CHOOSE i \in D : \A j \in D : i <= j

\* The magnitude a rounded to MantissaBits significant bits, ties to even;
\* sticky tells that the exact value has nonzero digits beyond a.
RoundSig(a, sticky) ==
  LET z == FirstDiff(a, FixedZero)
      last == z + MantissaBits - 1
      kept == SubSeq([i \in 1..FixedWidth |-> IF i <= last THEN a[i] ELSE 0],
                     1, FixedWidth)
      ulp == [i \in 1..FixedWidth |-> IF i = last THEN 1 ELSE 0]
      rest == sticky \/ \E i \in (last + 2)..FixedWidth : a[i] = 1
  IN IF z = 0 \/ last >= FixedWidth THEN a
     ELSE IF a[last + 1] = 1 /\ (rest \/ a[last] = 1)
     THEN AddBits(kept, ulp)
     ELSE kept

\* float64(s) / n for integers s and n > 0: what the mean of n integers with
\* the sum s is.
FloatDiv(s, n) ==
  LET m == IF s >= 0 THEN s ELSE 0 - s
  IN [sign |-> IF s > 0 THEN 1 ELSE IF s < 0 THEN -1 ELSE 0,
      mag |-> RoundSig(IntBitsOf(m \div n, IntBits) \o
                         FracDigits(m % n, n, FracBits),
                       FracRem(m % n, n, FracBits) # 0)]

\* x - y on float64 numbers.
FloatSub(x, y) ==
  LET c == FirstDiff(x.mag, y.mag)
  IN IF y.sign = 0 THEN x
     ELSE IF x.sign = 0 THEN [sign |-> 0 - y.sign, mag |-> y.mag]
     ELSE IF x.sign # y.sign
     THEN [sign |-> x.sign,
           mag |-> RoundSig(AddBits(x.mag, y.mag), FALSE)]
     ELSE IF c = 0 THEN [sign |-> 0, mag |-> FixedZero]
     ELSE IF x.mag[c] = 1
     THEN [sign |-> x.sign,
           mag |-> RoundSig(SubBits(x.mag, y.mag), FALSE)]
     ELSE [sign |-> 0 - x.sign,
           mag |-> RoundSig(SubBits(y.mag, x.mag), FALSE)]

\* x.astype(int): the integer part, towards zero.
RECURSIVE IntOfBits(_, _)
IntOfBits(a, k) == IF k = 0 THEN 0 ELSE 2 * IntOfBits(a, k - 1) + a[k]

AsTypeInt(x) == x.sign * IntOfBits(x.mag, IntBits)

\* The sum of component i of the shifts s over the slots in D.
RECURSIVE SumShifts(_, _, _)
SumShifts(s, D, i) ==
  IF D = {} THEN 0
  ELSE LET x == CHOOSE y \in D : TRUE
       IN s[x][i] + SumShifts(s, D \ {x}, i)

\* s[..., 1:] (line 149): the shifts without their plane component.
DropPlaneAxis(s) == [x \in DOMAIN s |-> <<s[x][2], s[x][3]>>]

\* nanmean(list(it.chain(*it.chain(*shifts))), axis=0) (line 143): the two
\* chains flatten the sequences, then the frames, so the list holds one
\* (row, column) pair per (cycle, frame, plane) and the mean has one entry
\* per axis, taken over every plane.
MeanShift(s) ==
  <<FloatDiv(SumShifts(s, DOMAIN s, 1), Cardinality(DOMAIN s)),
    FloatDiv(SumShifts(s, DOMAIN s, 2), Cardinality(DOMAIN s))>>

\* (mean_shift - mean_shift[0]).astype(int) (line 145): mean_shift[0] is
\* the mean on the row axis.
AlterationOf(mean_shift) ==
  <<AsTypeInt(FloatSub(mean_shift[1], mean_shift[1])),
    AsTypeInt(FloatSub(mean_shift[2], mean_shift[1]))>>

Alteration(s) == AlterationOf(MeanShift(s))

\* seq -= alteration (lines 146-147): the alteration is broadcast over every
\* (frame, plane).
SubtractAlteration(s, alteration) ==
  [x \in DOMAIN s |-> <<s[x][1] - alteration[1], s[x][2] - alteration[2]>>]

\* _align_planes (lines 141-147) on the shifts without their plane component.
AlignPlanes(s) == SubtractAlteration(s, Alteration(s))

\* Lines 138-158: after the last cycle the pool is joined, the plane axis is
\* dropped from the shifts, the planes are aligned and both records are
\* returned; a correlation cell nobody wrote holds what np.empty left there.
Finish ==
  /\ main.pc = "dispatch"
  /\ main.cycle_idx = dataset.cycles
  /\ \E g \in Garbage :
       main' = [main EXCEPT !.pc = "done", !.result =
         [shifts |-> AlignPlanes(DropPlaneAxis(shifts)),
          correlations |-> [x \in Slots |->
             IF correlations[x].set THEN correlations[x].val ELSE g]]]
  /\ UNCHANGED <<cfgVars, n_pools, namespaceVars, lock, workers, log,
                 otherSpecVars>>

Next ==
  \/ Dispatch
  \/ \E w \in Workers : TakeChunk(w)
  \/ \E w \in Workers : Acquire(w)
  \/ \E w \in Workers : Check(w)
  \/ \E w \in Workers : Snapshot(w)
  \/ \E w \in Workers : Search(w)
  \/ \E w \in Workers : Commit(w)
  \/ \E w \in Workers : Update(w)
  \/ NextCycle
  \/ MainRaise
  \/ Finish

Spec == Init /\ [][Next]_vars

\* (method, max_displacement) pairs of the runs of SpecOpt.
OptRunConfigs == {<<"correlation", <<1, 0>>>>, <<"bogus", <<>>>>}

\* (n_processes, cpu_count) pairs of the runs of SpecOpt: three workers, one.
OptPoolConfigs == {<<<<>>, 6>>, <<<<0>>, 6>>}

\* A run of the interpreter started with -O: __debug__ is false and no
\* assert statement is executed (lines 234-236 and 440 among them).
InitOpt == debug = FALSE /\ Setup({{}}, OptRunConfigs, OptPoolConfigs)

SpecOpt == InitOpt /\ [][Next]_vars

\* ------------------------------------------------- claims on the coordinator
\* A worker is inside one of the four `with lock:` blocks of _align_frame.
InCritical(w) == workers[w].pc \in {"check", "snapshot", "commit", "update"}

\* Whoever is inside a `with lock:` block holds the lock, so at most one
\* worker is inside one; a worker in the search does not hold it.
LockHeldWhereNeeded ==
  /\ \A w \in Workers : InCritical(w) => lock = w
  /\ \A w \in Workers : workers[w].pc = "search" => lock # w
  /\ \A w, v \in Workers : InCritical(w) /\ InCritical(v) => w = v

\* A step that changes the shared state is taken by the lock's holder from
\* inside a `with lock:` block; a step that copies the shared state into a
\* worker's locals is taken by that worker holding the lock.
SharedAccessUnderLock ==
  /\ namespaceVars' # namespaceVars => lock \in Workers /\ InCritical(lock)
  /\ \A w \in Workers :
       (workers'[w].p_offset # workers[w].p_offset
        \/ workers'[w].any_check # workers[w].any_check)
       /\ workers'[w].pc # "lock1" /\ workers'[w].pc # "idle"
         => lock = w /\ InCritical(w)

\* C1: in _align_frame every read and every write of the shared state happens
\* while the worker holds the one global lock, so at most one worker accesses
\* it at a time; the search runs with the lock not held.
C1_SharedStateUnderLock ==
  /\ []LockHeldWhereNeeded
  /\ [][SharedAccessUnderLock]_vars

\* Witness of C1: one worker is inside a `with lock:` block while another one
\* is searching and a third party, or the same, waits for the lock.
C1_Witness ==
  \E w, v \in Workers :
    /\ w # v
    /\ InCritical(w)
    /\ workers[v].pc = "search"
    /\ lock = w

\* Every frame and plane of cycle c has had its shift committed and its
\* accumulator update applied.
CycleFinished(c) ==
  \A s \in Slots : s[1] = c => log[s].shift_writes = 1 /\ log[s].updates = 1

\* C2: cycles are processed in index order with a barrier between them: when
\* a task of a cycle is running, or anything has been done for a slot of that
\* cycle, every task of every earlier cycle has finished.
C2_CycleBarrier ==
  /\ \A w \in Workers : workers[w].pc # "idle" =>
       \A c \in Cycles : c < workers[w].cycle_idx => CycleFinished(c)
  /\ \A s \in Slots : log[s] # NoLog =>
       \A c \in Cycles : c < s[1] => CycleFinished(c)
  /\ \A c \in Cycles : c < main.cycle_idx => CycleFinished(c)

\* Witness of C2: with a pool of several workers, a task of the second cycle
\* is searching after the first cycle ran on two workers.
C2_Witness ==
  /\ n_pools > 1
  /\ \E w \in Workers : workers[w].pc = "search" /\ workers[w].cycle_idx = 1
  /\ \E s \in Slots : s[1] = 0 /\ log[s].by = 2

\* No slot is written twice, and after a successful run every slot has been
\* written once.
WrittenAtMostOnce ==
  \A s \in Slots :
    /\ log[s].shift_writes <= 1
    /\ main.pc = "done" => log[s].shift_writes = 1

\* A step changes only the slot of the worker taking it, who holds the lock
\* and is the one processing that (cycle, frame, plane), and counts as one
\* write of that slot.
WritesOwnSlotOnly ==
  \A s \in Slots :
    (shifts'[s] # shifts[s] \/ log'[s].shift_writes # log[s].shift_writes) =>
      /\ lock \in Workers
      /\ s = SlotOf(lock)
      /\ workers[lock].pc \in {"check", "commit"}
      /\ log'[s].shift_writes = log[s].shift_writes + 1
      /\ log'[s].by = lock

\* C3: during a run each (cycle, frame, plane) Shift Record slot is written
\* exactly once, by the worker processing that frame and plane, in the seed
\* branch or in the commit step, and a write to one slot never changes
\* another slot.
C3_SlotWrittenOnceByOwner ==
  /\ []WrittenAtMostOnce
  /\ [][WritesOwnSlotOnly]_vars

\* Witness of C3: a run on a pool of several workers and two planes has
\* ended with a non-zero shift committed.
C3_Witness ==
  /\ main.pc = "done"
  /\ n_pools > 1
  /\ dataset.planes = 2
  /\ \E s \in Slots : shifts[s] # Zero3 /\ log[s].shift_writes = 1

\* The counts of plane p are entirely zero.
PlaneCountsZero(p) ==
  \A x \in Idx(pixel_counts.shape) : x[1] = p => pixel_counts.data[x] = 0

\* What the image puts at index x of an array when it lies at index at.
PlacedAt(image, at, x, sums) ==
  IF InBox(VSub(x, at), image.shape)
  THEN IF sums THEN NanToNum(image.data[VSub(x, at)])
       ELSE IsFinite(image.data[VSub(x, at)])
  ELSE 0

\* The step of a worker that finds the counts of its plane all zero: in that
\* one step, which starts and ends the critical section of the check, its
\* slot gets shift (0,0,0) and correlation 1, the plane's pixels are added to
\* sums and counts at zero displacement (index offset + [p,0,0]), and the
\* worker moves on to its next plane or frame without entering the search.
SeedStep(w) ==
  LET slot == SlotOf(w)
      image == PlaneImage(slot[1], slot[2], slot[3])
      at == VAdd(offset, <<slot[3], 0, 0>>)
  IN /\ lock = w
     /\ lock' = 0
     /\ shifts'[slot] = Zero3
     /\ correlations'[slot] = [set |-> TRUE, val |-> 1]
     /\ offset' = offset
     /\ pixel_sums'.shape = pixel_sums.shape
     /\ pixel_counts'.shape = pixel_counts.shape
     /\ \A x \in Idx(pixel_sums.shape) :
          /\ pixel_sums'.data[x] =
               pixel_sums.data[x] + PlacedAt(image, at, x, TRUE)
          /\ pixel_counts'.data[x] =
               pixel_counts.data[x] + PlacedAt(image, at, x, FALSE)
     /\ workers'[w].pc \in {"lock1", "idle"}
     /\ log'[slot].seeded /\ ~log'[slot].searched

\* C4: whenever a worker finds the counts of plane p entirely zero it commits
\* displacement (0,0,0) and correlation 1 for its slot and adds the plane's
\* pixels to the accumulator at zero displacement, all inside the critical
\* section of the check, and never invokes pyramid_align for that slot.
C4_SeedFrame ==
  /\ [][\A w \in Workers :
          workers[w].pc = "check" /\ workers'[w] # workers[w]
          /\ PlaneCountsZero(workers[w].p) => SeedStep(w)]_vars
  /\ [](\A s \in Slots : log[s].seeded => ~log[s].searched)

\* Witness of C4: the second plane has been seeded while the first plane
\* already holds pixels, on a pool of several workers.
C4_Witness ==
  /\ n_pools > 1
  /\ dataset.planes = 2
  /\ \E s \in Slots : s[3] = 1 /\ log[s].seeded /\ log[s].updates = 1
  /\ ~PlaneCountsZero(0) /\ ~PlaneCountsZero(1)

\* C8 as claimed: whenever a maximum displacement is configured, the bounds
\* _align_frame passes to pyramid_align satisfy lower < upper on every
\* component.
C8_BoundsStrictAtSearch ==
  \A w \in Workers :
    workers[w].pc = "search" /\ method = "correlation"
    /\ DisplacementBounds(workers[w]) # <<>> =>
      \A i \in Axes : DisplacementBounds(workers[w])[1][i]
                        < DisplacementBounds(workers[w])[2][i]

\* C9 as claimed: with a method other than 'correlation' the run never
\* completes, and when it has failed no Shift Record or Correlation Record
\* has been written and the accumulator is in its initial empty state.
C9_FailsBeforeAnyWork ==
  method # "correlation" =>
    /\ main.pc # "done"
    /\ main.failed =>
         /\ \A s \in Slots : log[s] = NoLog /\ ~correlations[s].set
         /\ pixel_sums = Zeros(FrameShape)
         /\ pixel_counts = Zeros(FrameShape)
         /\ offset = Zero3

\* C10 as claimed: when a run completes successfully every Correlation Record
\* has been written by the worker that processed its slot, with 1 in the seed
\* slots.
C10_AllCorrelationsWritten ==
  main.pc = "done" =>
    \A s \in Slots :
      /\ correlations[s].set
      /\ log[s].corr_writes >= 1
      /\ log[s].seeded => correlations[s].val = 1

\* ------------------------------------------------ SpecPyr: pyramid_align
\* Bound components on the row axis range over -MaxBound..MaxBound.
MaxBound == 2

\* The default min_shape of pyramid_align.
MinShape == 32

\* (reference shape, target shape) pairs without the channel axis: one
\* level on the row axis; two levels on the row axis with a grown reference;
\* one level on the row and column axes together.
PyrShapes == {<<<<1, 64, 16>>, <<1, 64, 16>>>>,
              <<<<1, 130, 33>>, <<1, 128, 32>>>>,
              <<<<1, 65, 64>>, <<1, 64, 64>>>>}

\* max_levels: None (<<>>), as both callers leave it, or a number.
PyrMaxLevels == {<<>>, <<1>>}

\* bounds: None (<<>>), or (lower, upper) with any pair on the row axis,
\* also pairs that fail the entry assertion.
PyrBounds ==
  {<<>>} \cup
  {<<<<0, ly, lx>>, <<1, hy, 1>>>> :
     ly \in (0 - MaxBound)..MaxBound, hy \in (0 - MaxBound)..MaxBound,
     lx \in {-1, 0}}

\* What decides the scores of shifted_corr on a pair of images: a peak that
\* the correlation falls off from, the same score everywhere, or an overlap
\* that is all zero at the peak (a non-finite correlation there).
PyrScorers == {[kind |-> "peak", peak |-> <<0, 1, -1>>],
               [kind |-> "peak", peak |-> <<1, -2, 0>>],
               [kind |-> "flat", peak |-> Zero3],
               [kind |-> "degenerate", peak |-> <<0, 0, 0>>]}

Abs(a) == IF a >= 0 THEN a ELSE 0 - a

\* shifted_corr (lines 380-396) as far as the search sees it: a finite score,
\* or the failure of one of its assertions when the score is not finite.
ShiftedCorr(scorer, d) ==
  [finite |-> ~(scorer.kind = "degenerate" /\ d = scorer.peak),
   corr |-> IF scorer.kind = "flat" THEN 0
            ELSE 0 - (Abs(d[1] - scorer.peak[1]) + Abs(d[2] - scorer.peak[2])
                      + Abs(d[3] - scorer.peak[3]))]

\* Python 2's / on integers, for a positive divisor: the floor.
FloorDiv(a, b) == a \div b

\* smallest_shape >= 2 * min_shape, per axis (lines 441-442)
AxesBool(reference, target) ==
  [i \in Axes |-> Min2(reference[i], target[i]) >= 2 * MinShape]

\* The shape pyr_down_3d returns: every other cell on the chosen axes
\* (lines 412-414).
PyrDownShape(shape, axes_bool) ==
  [i \in Axes |-> IF axes_bool[i] THEN (shape[i] + 1) \div 2 ELSE shape[i]]

\* new_bounds = bounds / (1 + axes_bool) (line 445)
NewBounds(bounds, axes_bool) ==
  IF bounds = <<>> THEN <<>>
  ELSE <<[i \in Axes |->
            FloorDiv(bounds[1][i], IF axes_bool[i] THEN 2 ELSE 1)],
         [i \in Axes |->
            FloorDiv(bounds[2][i], IF axes_bool[i] THEN 2 ELSE 1)]>>

\* it.product(*[range(-1, 2) if a else range(1) for a in axes_bool]), in the
\* order it enumerates: the last axis runs fastest (lines 451-452).
AxisAdjustments(a) == IF a THEN <<-1, 0, 1>> ELSE <<0>>

Adjustments(axes_bool) ==
  LET a1 == AxisAdjustments(axes_bool[1])
      a2 == AxisAdjustments(axes_bool[2])
      a3 == AxisAdjustments(axes_bool[3])
      n2 == Len(a2)
      n3 == Len(a3)
  IN [k \in 1..(Len(a1) * n2 * n3) |->
        <<a1[((k - 1) \div (n2 * n3)) + 1],
          a2[(((k - 1) \div n3) % n2) + 1],
          a3[((k - 1) % n3) + 1]>>]

\* The adjustment added to the coarse displacement as it is, not upscaled.
CandidateNotUpscaled(axes_bool, disp, adjustment) ==
  [i \in Axes |-> disp[i] + adjustment[i]]

\* displacement = (1 + axes_bool) * disp + adjustment (line 453)
Candidate(axes_bool, disp, adjustment) ==
  [i \in Axes |-> (IF axes_bool[i] THEN 2 ELSE 1) * disp[i] + adjustment[i]]

\* A candidate filter that lets every candidate through.
AlwaysWithin(displacement, bounds) == TRUE

\* The filter of the refinement loop (line 454).
CandidateAllowed(displacement, bounds) == WithinBounds(displacement, bounds)

\* The loop of lines 449-458 from adjustment k on, with the best so far
\* (<<>> is None, best_corr is then -inf): the best displacement, or the
\* failure of an assertion of shifted_corr.
RECURSIVE RefineFrom(_, _, _, _, _, _)
RefineFrom(scorer, axes_bool, disp, bounds, k, best) ==
  LET adjs == Adjustments(axes_bool)
  IN IF k > Len(adjs) THEN [err |-> "", best |-> best]
     ELSE LET displacement == Candidate(axes_bool, disp, adjs[k])
              sc == ShiftedCorr(scorer, displacement)
          IN IF ~CandidateAllowed(displacement, bounds)
             THEN RefineFrom(scorer, axes_bool, disp, bounds, k + 1, best)
             ELSE IF ~sc.finite
             THEN [err |-> "AssertionError", best |-> best]
             ELSE IF best = <<>> \/ sc.corr > best[1]
             THEN RefineFrom(scorer, axes_bool, disp, bounds, k + 1,
                             <<sc.corr, displacement>>)
             ELSE RefineFrom(scorer, axes_bool, disp, bounds, k + 1, best)

\* One activation of pyramid_align.
PyrFrame(reference, target, max_levels, bounds) ==
  [reference |-> reference, target |-> target, max_levels |-> max_levels,
   bounds |-> bounds, axes_bool |-> AxesBool(reference, target),
   phase |-> "entry", disp |-> Zero3]

\* max_levels > 0 and np.any(axes_bool) (line 443); None is np.inf.
GoesDeeper(f) ==
  IF f.max_levels = <<>> THEN \E i \in Axes : f.axes_bool[i]
  ELSE f.max_levels[1] > 0 /\ \E i \in Axes : f.axes_bool[i]

InitPyr ==
  /\ CoordinatorUnused
  /\ pixel_sums = Zeros(Zero3)
  /\ pixel_counts = Zeros(Zero3)
  /\ offset = Zero3
  /\ acc = NoAcc
  /\ drift = NoDrift
  /\ corr = NoCorr
  /\ \E sh \in PyrShapes : \E ml \in PyrMaxLevels : \E b \in PyrBounds :
     \E sc \in PyrScorers :
       pyr = [stack |-> <<PyrFrame(sh[1], sh[2], ml, b)>>, scorer |-> sc,
              status |-> "running", err |-> "", returned |-> <<>>]

pyrOnlyUnchanged == <<coordinatorOnlyVars, pixel_sums, pixel_counts, offset,
                      acc, drift, corr>>

\* The innermost activation.
Top == pyr.stack[Len(pyr.stack)]

\* An exception leaves pyramid_align and all its callers.
PyrRaise(err) ==
  pyr' = [pyr EXCEPT !.status = "raised", !.err = err, !.stack = <<>>]

\* The innermost activation returns d: its caller, if any, goes on with the
\* refinement; returned keeps the bounds and the result of this return.
PyrReturn(d) ==
  LET n == Len(pyr.stack)
      ret == <<[bounds |-> Top.bounds, d |-> d, level |-> n]>>
  IN IF n = 1
     THEN pyr' = [pyr EXCEPT !.status = "returned", !.stack = <<>>,
                             !.returned = ret]
     ELSE pyr' = [pyr EXCEPT !.stack =
                    [SubSeq(pyr.stack, 1, n - 1) EXCEPT
                       ![n - 1].phase = "refine", ![n - 1].disp = d],
                  !.returned = ret]

\* Lines 438-448: the entry assertion, then the recursive call on the
\* downsampled images with the halved bounds and max_levels - 1.
PyrDescend ==
  /\ pyr.status = "running"
  /\ Top.phase = "entry"
  /\ LET f == Top
     IN /\ IF BoundsStrict(f.bounds) THEN GoesDeeper(f) ELSE TRUE
        /\ IF ~BoundsStrict(f.bounds) THEN PyrRaise("AssertionError")
           ELSE pyr' = [pyr EXCEPT
                  !.stack = [pyr.stack EXCEPT ![Len(pyr.stack)].phase = "waiting"] \o
                    <<PyrFrame(PyrDownShape(f.reference, f.axes_bool),
                               PyrDownShape(f.target, f.axes_bool),
                               IF f.max_levels = <<>> THEN <<>>
                               ELSE <<f.max_levels[1] - 1>>,
                               NewBounds(f.bounds, f.axes_bool))>>]
  /\ UNCHANGED pyrOnlyUnchanged

\* Line 462: at the coarsest level the base alignment answers.
PyrBase ==
  /\ pyr.status = "running"
  /\ Top.phase = "entry"
  /\ BoundsStrict(Top.bounds)
  /\ ~GoesDeeper(Top)
  /\ \E d \in BaseAlignment(Zero3, Top.bounds) : PyrReturn(d)
  /\ UNCHANGED pyrOnlyUnchanged

\* Lines 449-460: the refinement around the upscaled coarse displacement and
\* the assertion that a candidate survived.
PyrRefine ==
  /\ pyr.status = "running"
  /\ Top.phase = "refine"
  /\ LET r == RefineFrom(pyr.scorer, Top.axes_bool, Top.disp, Top.bounds,
                         1, <<>>)
     IN IF r.err # "" THEN PyrRaise(r.err)
        ELSE IF r.best = <<>> THEN PyrRaise("AssertionError")
        ELSE PyrReturn(r.best[2])
  /\ UNCHANGED pyrOnlyUnchanged

NextPyr == PyrDescend \/ PyrBase \/ PyrRefine

SpecPyr == InitPyr /\ [][NextPyr]_vars

\* C7: whenever bounds are supplied and the base alignment returns a
\* displacement within the bounds it is given, the displacement pyramid_align
\* returns at every recursion level lies within that level's bounds,
\* componentwise.
C7_ReturnWithinBounds ==
  \A i \in 1..Len(pyr.returned) :
    pyr.returned[i].bounds # <<>> =>
      \A a \in Axes :
        /\ pyr.returned[i].bounds[1][a] <= pyr.returned[i].d[a]
        /\ pyr.returned[i].d[a] <= pyr.returned[i].bounds[2][a]

\* Witness of C7: the outermost call returned, under bounds, a refined
\* displacement that sits on the upper bound of the row axis away from 0.
C7_Witness ==
  /\ pyr.status = "returned"
  /\ pyr.returned[1].bounds # <<>>
  /\ pyr.returned[1].level = 1
  /\ pyr.returned[1].d[2] = pyr.returned[1].bounds[2][2]
  /\ pyr.returned[1].d[2] # 0

\* -------------------------------------------- SpecPlanes: _align_planes
\* _align_planes is applied at most MaxPasses times in a row.
MaxPasses == 2

\* The shapes of the shift records: cycles, frames per cycle, planes.
DriftShapes == {[cycles |-> 1, frames |-> 1, planes |-> 1],
                [cycles |-> 2, frames |-> 1, planes |-> 2],
                [cycles |-> 1, frames |-> 5, planes |-> 1]}

\* The (row, column) shifts a slot may hold.
DriftShifts == {<<1, 3>>, <<0, 2>>, <<-1, 0>>}

DriftSlots(sh) ==
  (0..(sh.cycles - 1)) \X (0..(sh.frames - 1)) \X (0..(sh.planes - 1))

InitPlanes ==
  /\ CoordinatorUnused
  /\ pixel_sums = Zeros(Zero3)
  /\ pixel_counts = Zeros(Zero3)
  /\ offset = Zero3
  /\ acc = NoAcc
  /\ pyr = NoPyr
  /\ corr = NoCorr
  /\ \E sh \in DriftShapes : \E s \in [DriftSlots(sh) -> DriftShifts] :
       drift = [input |-> s, before |-> s, shifts |-> s, passes |-> 0]

\* _align_planes(shifts): the arrays are changed in place.
CallAlignPlanes ==
  /\ drift.passes < MaxPasses
  /\ drift' = [drift EXCEPT !.before = drift.shifts,
                            !.shifts = AlignPlanes(drift.shifts),
                            !.passes = @ + 1]
  /\ UNCHANGED <<coordinatorOnlyVars, pixel_sums, pixel_counts, offset, acc,
                 pyr, corr>>

NextPlanes == CallAlignPlanes

SpecPlanes == InitPlanes /\ [][NextPlanes]_vars

\* The slots of plane p in the shift records s.
PlaneSlots(s, p) == {x \in DOMAIN s : x[3] = p}

\* The mean shift of plane p on axis i over all (cycle, frame) pairs.
PlaneMean(s, p, i) ==
  FloatDiv(SumShifts(s, PlaneSlots(s, p), i), Cardinality(PlaneSlots(s, p)))

\* The correction the drift correction is specified to apply to plane p on
\* axis i: the integer part of the difference of the plane's mean to the
\* mean of plane 0 on that axis.
PlaneCorrection(s, p, i) ==
  AsTypeInt(FloatSub(PlaneMean(s, p, i), PlaneMean(s, 0, i)))

\* C11: _align_planes subtracts from every shift of plane p, on each axis,
\* the integer-converted difference between the mean shift of plane p and
\* the mean shift of plane 0 on that axis, so the shifts of plane 0 (and
\* all shifts of a single-plane dataset) are unchanged and an axis is
\* corrected independently of the other.
C11_PerPlaneCorrection ==
  drift.passes = 1 =>
    \A x \in DOMAIN drift.input : \A i \in 1..2 :
      drift.shifts[x][i] =
        drift.input[x][i] - PlaneCorrection(drift.input, x[3], i)

\* C12: applying _align_planes a second time immediately after a first
\* application changes nothing.
C12_SecondPassNoOp ==
  drift.passes >= 2 => drift.shifts = drift.before

\* ------------------------------------- further claims on the coordinator
\* C13: the worker-pool size is always an integer >= 1: half the CPU count
\* with a minimum of 1 when n_processes is None, and 1 when n_processes is 0.
C13_PoolSizeAtLeastOne == n_pools >= 1

\* C14: with a maximum displacement configured, whenever the search of a
\* worker returns a displacement, the conditions of the three assertions that
\* follow it hold (within the bounds, within the maximum displacement of the
\* snapshot offset on every axis), in every interleaving; hence every shift
\* record has magnitude at most the maximum displacement on every axis, and
\* no displacement failing a condition is committed.
C14_PostSearchAssertionsHold ==
  /\ [][\A w \in Workers :
          (BoundsConfigured /\ workers[w].pc = "search"
           /\ workers'[w].pc = "lock3") =>
            /\ WithinBounds(workers'[w].shift, DisplacementBounds(workers[w]))
            /\ \A i \in Axes :
                 Abs(workers'[w].shift[i] - workers[w].p_offset[i])
                   <= PlaneCapped[i]]_vars
  /\ [](BoundsConfigured =>
          \A slot \in Slots : \A i \in Axes :
            Abs(shifts[slot][i]) <= PlaneCapped[i])

\* Several workers, and a searched slot committed with a nonzero shift under
\* a configured maximum displacement.
C14_Witness ==
  /\ BoundsConfigured
  /\ n_pools > 1
  /\ \E slot \in Slots :
       /\ log[slot].searched
       /\ log[slot].shift_writes >= 1
       /\ shifts[slot] # Zero3

\* -------------------------------------- further claims on pyramid_align
\* C15: bounds with lower < upper on every component are halved to bounds
\* with lower < upper on every component, so the entry assertion holds at
\* every recursion level.
C15_HalvingKeepsStrict ==
  \A i \in 2..Len(pyr.stack) :
    (pyr.stack[i - 1].bounds # <<>> /\ BoundsStrict(pyr.stack[i - 1].bounds))
      => BoundsStrict(pyr.stack[i].bounds)

\* The candidates of a level, as the refinement is specified: twice the
\* coarse displacement plus -1, 0 or 1 on the downsampled axes, the coarse
\* displacement itself on the others.
LevelCandidates(f) ==
  Box([i \in Axes |-> IF f.axes_bool[i] THEN 2 * f.disp[i] - 1 ELSE f.disp[i]],
      [i \in Axes |-> IF f.axes_bool[i] THEN 2 * f.disp[i] + 1 ELSE f.disp[i]])

\* Those of them within the bounds of the level.
Surviving(f) ==
  {c \in LevelCandidates(f) :
     f.bounds # <<>> =>
       \A i \in Axes : f.bounds[1][i] <= c[i] /\ c[i] <= f.bounds[2][i]}

\* c comes before d in the order the candidates are enumerated in.
EnumeratedBefore(c, d) ==
  \/ c[1] < d[1]
  \/ c[1] = d[1] /\ c[2] < d[2]
  \/ c[1] = d[1] /\ c[2] = d[2] /\ c[3] < d[3]

\* The coarse displacement of the level lies within the halved bounds.
CoarseWithinHalved(f) ==
  f.bounds # <<>> =>
    \A i \in Axes :
      /\ FloorDiv(f.bounds[1][i], IF f.axes_bool[i] THEN 2 ELSE 1) <= f.disp[i]
      /\ f.disp[i] <= FloorDiv(f.bounds[2][i], IF f.axes_bool[i] THEN 2 ELSE 1)

\* C16: when the recursive call returned a coarse displacement within the
\* halved bounds, a candidate lies within the bounds of the level, the
\* refinement does not fail for want of a candidate, and what it returns is
\* the candidate with the highest score, the first enumerated on ties.
C16_CandidateSurvivesBestReturned ==
  [][(/\ pyr.status = "running" /\ pyr.stack # <<>> /\ pyr' # pyr
      /\ Top.phase = "refine" /\ CoarseWithinHalved(Top)) =>
          /\ Surviving(Top) # {}
          /\ pyr'.status = "raised" =>
               \E c \in Surviving(Top) : ~ShiftedCorr(pyr.scorer, c).finite
          /\ pyr'.status # "raised" =>
               LET d == pyr'.returned[1].d
               IN /\ d \in Surviving(Top)
                  /\ \A c \in Surviving(Top) :
                       /\ ShiftedCorr(pyr.scorer, c).corr
                            <= ShiftedCorr(pyr.scorer, d).corr
                       /\ ShiftedCorr(pyr.scorer, c).corr
                            = ShiftedCorr(pyr.scorer, d).corr
                          => (c = d \/ EnumeratedBefore(d, c))]_vars

\* Witness of C16: under bounds that cut candidates away, a refinement over
\* equal scores has returned.
C16_Witness ==
  /\ pyr.status = "returned"
  /\ pyr.scorer.kind = "flat"
  /\ pyr.returned[1].bounds # <<>>
  /\ pyr.returned[1].d[2] = pyr.returned[1].bounds[1][2]
  /\ pyr.returned[1].d[2] % 2 # 0

\* The total of the counts of plane p in the accumulator.
RECURSIVE SumCounts(_, _)
SumCounts(counts, D) ==
  IF D = {} THEN 0
  ELSE LET x == CHOOSE y \in D : TRUE
       IN counts.data[x] + SumCounts(counts, D \ {x})

PlaneCountTotal(p) ==
  SumCounts(pixel_counts, {x \in Idx(pixel_counts.shape) : x[1] = p})

\* The slot gets an accumulator update in this step.
UpdatedNow(slot) == log'[slot].updates # log[slot].updates

\* C17: every (cycle, frame, plane) is added into the accumulator exactly
\* once, in its plane at (its committed shift + the offset at the update);
\* when a run of all-finite frames completes, the counts of plane p total
\* the number of frames times the pixels per plane.
C17_EveryUpdateOnceInPlace ==
  /\ [](\A slot \in Slots : log[slot].updates <= 1)
  /\ [](main.pc = "done" =>
          /\ \A slot \in Slots : log[slot].updates = 1
          /\ dataset.nan = {} =>
               \A p \in 0..(dataset.planes - 1) :
                 PlaneCountTotal(p) = dataset.cycles * dataset.frames
                                        * NRows * NCols)
  /\ [][\A slot \in Slots :
          UpdatedNow(slot) =>
            log'[slot].at = <<slot[3] + offset'[1],
                              shifts'[slot][2] + offset'[2],
                              shifts'[slot][3] + offset'[3]>>]_vars

\* Witness of C17: a run over several workers has completed in which the
\* accumulator grew between a worker's snapshot and its update.
C17_Witness ==
  /\ main.pc = "done"
  /\ n_pools > 1
  /\ dataset.nan = {}
  /\ \E slot \in Slots : log[slot].stale /\ log[slot].searched

\* The slots of plane p that went through the seed branch.
SeededSlots(p) == {slot \in Slots : slot[3] = p /\ log[slot].seeded}

\* C18: provided the seeding frame of plane p has a finite pixel, one slot
\* of plane p at most goes through the seed branch, whatever the workers'
\* interleaving; a slot goes through the seed branch or through the search,
\* never both; and when the run completes exactly one slot of plane p has
\* been seeded and every other has been searched.
C18_OneSeedPerPlane ==
  \A p \in 0..(dataset.planes - 1) :
    /\ \A slot \in Slots : ~(log[slot].seeded /\ log[slot].searched)
    /\ (\A slot \in SeededSlots(p) : slot \notin dataset.nan) =>
         /\ Cardinality(SeededSlots(p)) <= 1
         /\ main.pc = "done" =>
              /\ Cardinality(SeededSlots(p)) = 1
              /\ \A slot \in Slots :
                   slot[3] = p /\ slot \notin SeededSlots(p)
                     => log[slot].searched

\* Witness of C18: a run over several workers has completed, with one seeded
\* slot and at least one searched slot in every plane.
C18_Witness ==
  /\ main.pc = "done"
  /\ n_pools > 1
  /\ dataset.planes > 1
  /\ \A p \in 0..(dataset.planes - 1) :
       /\ Cardinality(SeededSlots(p)) = 1
       /\ \E slot \in Slots : slot[3] = p /\ log[slot].searched

\* C19: with a maximum displacement configured, the componentwise range
\* (maximum minus minimum) of the committed shift records never exceeds the
\* maximum displacement, at any point of a run and in every interleaving of
\* the workers. The slots not yet committed hold the zero shift, which the
\* seed of the plane commits as well.
C19_RangeWithinMaximum ==
  BoundsConfigured =>
    \A i \in Axes :
      MaxShift(shifts)[i] - MinShift(shifts)[i] <= PlaneCapped[i]

\* ------------------------------------------------ SpecCorr: shifted_corr
\* Calls of shifted_corr on one reference and one image.
MaxCorrCalls == 2

\* Pixel values are kept as integers counting units of 1 / Scale. The arrays
\* of SpecCorr start with whole pixel values and every overlap has 1, 2 or 4
\* cells, so that after MaxCorrCalls mean subtractions every value is a whole
\* number of units and the float64 arithmetic of the code is exact.
Scale == 4 ^ MaxCorrCalls

\* Shape (z, y, x) of the reference and of the image; one channel.
CorrShape == <<1, 2, 2>>

CorrCells == Box(Zero3, <<CorrShape[1] - 1, CorrShape[2] - 1, CorrShape[3] - 1>>)

\* The arrays the calls start from: pixel values 0 and 1, all finite.
CorrArrays == [CorrCells -> {0, Scale}]

\* The displacements of the calls: the adjustments of a level that has
\* downsampled rows and columns, around a coarse displacement of zero.
CorrDisps == Box(<<0, -1, -1>>, <<0, 1, 1>>)

\* np.maximum(0, displacement) (lines 381 and 383)
Cuts(displacement) ==
  <<IF displacement[1] > 0 THEN displacement[1] ELSE 0,
    IF displacement[2] > 0 THEN displacement[2] ELSE 0,
    IF displacement[3] > 0 THEN displacement[3] ELSE 0>>

Negated(displacement) ==
  <<0 - displacement[1], 0 - displacement[2], 0 - displacement[3]>>

\* s = np.minimum(im.shape, ref.shape) (line 385), the shapes being those of
\* the arrays cut at their low ends.
OverlapShape(displacement) ==
  LET rc == Cuts(displacement)
      ic == Cuts(Negated(displacement))
  IN [i \in Axes |->
        IF CorrShape[i] - rc[i] <= CorrShape[i] - ic[i]
        THEN CorrShape[i] - rc[i] ELSE CorrShape[i] - ic[i]]

\* The cells of an array that the view cut at `cuts` and trimmed to the
\* overlap shape covers (lines 382-387): basic slices, which share the
\* memory of the array they are taken from.
ViewCells(cuts, displacement) ==
  {c \in CorrCells :
     \A i \in Axes : /\ cuts[i] <= c[i]
                     /\ c[i] < cuts[i] + OverlapShape(displacement)[i]}

RECURSIVE SumCells(_, _)
SumCells(a, V) ==
  IF V = {} THEN 0
  ELSE LET c == CHOOSE x \in V : TRUE IN a[c] + SumCells(a, V \ {c})

\* nanmean over the cells of a view, all finite here; one channel.
NanMeanOver(a, V) == SumCells(a, V) \div Cardinality(V)

\* ref -= nanmean(...) and im -= nanmean(...) (lines 388 and 390):
\* in-place subtraction through the view, so the cells of the caller's array
\* under the view change and the others stay.
SubtractMeanInPlace(a, V) ==
  LET mean == NanMeanOver(a, V)
  IN [c \in CorrCells |-> IF c \in V THEN a[c] - mean ELSE a[c]]

\* shifted_corr(reference, image, displacement) (lines 380-396): the caller's
\* two arrays as the call leaves them, and the correlation as the sums it is
\* made of: corr = num / sqrt(ii * rr), which is finite iff ii * rr > 0.
ShiftedCorrInPlace(reference, image, displacement) ==
  LET rc == Cuts(displacement)
      ic == Cuts(Negated(displacement))
      RV == ViewCells(rc, displacement)
      ref == SubtractMeanInPlace(reference, RV)
      im == SubtractMeanInPlace(image, ViewCells(ic, displacement))
      imAt(c) == im[<<c[1] - rc[1] + ic[1], c[2] - rc[2] + ic[2],
                      c[3] - rc[3] + ic[3]>>]
      prod == [c \in RV |-> imAt(c) * ref[c]]
      isq == [c \in RV |-> imAt(c) * imAt(c)]
      rsq == [c \in RV |-> ref[c] * ref[c]]
      ii == SumCells(isq, RV)
      rr == SumCells(rsq, RV)
  IN [reference |-> ref, image |-> im, num |-> SumCells(prod, RV),
      ii |-> ii, rr |-> rr, finite |-> ii * rr > 0]

InitCorr ==
  /\ CoordinatorUnused
  /\ pixel_sums = Zeros(Zero3)
  /\ pixel_counts = Zeros(Zero3)
  /\ offset = Zero3
  /\ acc = NoAcc
  /\ pyr = NoPyr
  /\ drift = NoDrift
  /\ \E r \in CorrArrays : \E t \in CorrArrays :
       corr = [reference0 |-> r, image0 |-> t, reference |-> r, image |-> t,
               calls |-> 0, status |-> "running", added |-> <<>>]

corrOnlyUnchanged == <<coordinatorOnlyVars, pixel_sums, pixel_counts, offset,
                       acc, pyr, drift>>

\* One iteration of the loop of lines 452-458 that reaches line 455:
\* corr = shifted_corr(reference, target, displacement). The assertion of
\* line 395 fails when an overlap is constant after the mean subtraction; the
\* arrays have been changed by then.
CallShiftedCorr(displacement) ==
  /\ corr.status = "running"
  /\ corr.calls < MaxCorrCalls
  /\ LET r == ShiftedCorrInPlace(corr.reference, corr.image, displacement)
     IN corr' = [corr EXCEPT !.reference = r.reference, !.image = r.image,
                             !.calls = @ + 1,
                             !.status = IF r.finite THEN "running"
                                        ELSE "raised"]
  /\ UNCHANGED corrOnlyUnchanged

\* Lines 247-253 of _align_frame, after pyramid_align has returned: the
\* plane handed to the search as target is handed to _update_reference,
\* which adds nan_to_num of it to the sums.
AddPlane ==
  /\ corr.status = "running"
  /\ corr.calls >= 1
  /\ corr' = [corr EXCEPT !.added = corr.image, !.status = "added"]
  /\ UNCHANGED corrOnlyUnchanged

NextCorr ==
  \/ \E displacement \in CorrDisps : CallShiftedCorr(displacement)
  \/ AddPlane

SpecCorr == InitCorr /\ [][NextCorr]_vars

\* C20: the search does not alter the frame it scores: after calls of
\* shifted_corr the reference and the image handed to it hold the values they
\* held before, and the pixel values then added to the accumulator are the
\* plane's original ones.
C20_SearchLeavesArraysUnchanged ==
  /\ corr.calls >= 1 =>
       /\ corr.reference = corr.reference0
       /\ corr.image = corr.image0
  /\ corr.status = "added" => corr.added = corr.image0

====
